---------------------------- MODULE Spec2Model ----------------------------
(***************************************************************************)
(* Model of donatosaur/advent-of-code-2022:                                *)
(*   src/data_structures.py  DirectoryStack                                *)
(*   src/solutions.py        day_one, first_unique_window, parse_cli_log,  *)
(*                           parse_ls, day_seven                           *)
(*                                                                         *)
(* Four specifications share the variables below:                          *)
(*   SpecStack  arbitrary push / update_size / pop calls on one stack      *)
(*   SpecSeven  day_seven replaying one transcript (FairSeven: with the    *)
(*              fairness of a sequential program that always takes its     *)
(*              next step)                                                 *)
(*   SpecOne    day_one over one calorie file                              *)
(*   SpecSix    first_unique_window over one sequence                      *)
(*                                                                         *)
(* Text is modelled at the level of whitespace-separated tokens: a line is *)
(* a sequence of tokens, a token is <<"word", s>> or <<"num", n>> (a run   *)
(* of decimal digits, held by its value).  Paths are strings built by      *)
(* concatenation, as str.join builds them.                                 *)
(***************************************************************************)
EXTENDS Integers, Sequences, FiniteSets, TLC

VARIABLES
    \* ---- DirectoryStack object (data_structures.py) ----
    directories,      \* self._directories: sequence of [name, size]
    max_size,         \* self._max_size: a number or Inf
    accumulator,      \* self._accumulator
    \* ---- history of the calls made on the stack ----
    ctor_arg,         \* max_tracked_directory_size given to __init__
    n_calls,          \* calls made so far
    n_push,           \* push calls made
    n_pop,            \* pop calls that returned
    last_call,        \* the last call: its name, argument, outcome
    \* ---- day_seven ----
    log,              \* the transcript: a sequence of lines
    gen,              \* parse_cli_log generator: what it has still to yield
    directory_sizes,  \* dict path -> size
    open_ids,         \* history: identity of each open frame, bottom to top
    closed,           \* history: every pop made, as [id, at, path, size]
    \* ---- day_one ----
    calorie_data,     \* the lines of the file
    num_elves,
    top_calories,     \* the heap (a Python list)
    maximum_calories,
    current_calories,
    \* ---- first_unique_window ----
    sequence,         \* the whole input sequence
    window_size,
    buffer,           \* deque(maxlen = window_size)
    index,            \* elements consumed so far (enumerate's counter in
                      \* first_unique_window, the read position in day_one)
    \* ---- control ----
    pc,               \* position of the running function
    result            \* its return value

vars == << directories, max_size, accumulator, ctor_arg, n_calls, n_push, n_pop,
           last_call, log, gen, directory_sizes, open_ids, closed,
           calorie_data, num_elves, top_calories, maximum_calories,
           current_calories, sequence, window_size, buffer, index, pc, result >>

stackVars == << directories, max_size, accumulator >>
histVars  == << ctor_arg, n_calls, n_push, n_pop, last_call >>
sevenVars == << log, gen, directory_sizes, open_ids, closed >>
oneVars   == << calorie_data, num_elves, top_calories, maximum_calories,
               current_calories >>
sixVars   == << sequence, window_size, buffer, index >>

\* ------------------------------- bounds ---------------------------------
MaxCalls == 5      \* calls made on the stack in SpecStack
MaxBound == 2      \* largest max_tracked_directory_size tried in SpecStack
MaxSize  == 2      \* largest size passed to push / update_size in SpecStack

\* --------------------------- Python's values ----------------------------
None == -2         \* the default of max_tracked_directory_size
Inf  == -1         \* float('inf')

Max(a, b) == IF a >= b THEN a ELSE b

RECURSIVE SumSeq(_)
SumSeq(s) == IF s = << >> THEN 0 ELSE s[1] + SumSeq(Tail(s))

\* =========================== DirectoryStack =============================
\* __init__: `x if x else float('inf')` -- None and 0 are both falsy.
init_max_size(max_tracked_directory_size) ==
    IF max_tracked_directory_size # None /\ max_tracked_directory_size # 0
    THEN max_tracked_directory_size
    ELSE Inf

\* size <= self._max_size, with float('inf') above every integer
leq_max(size, m) == m = Inf \/ size <= m

\* update_size on a non-empty list: self._directories[-1][1] += size
update_size_first(dirs, size) == [dirs EXCEPT ![1].size = @ + size]
update_size(dirs, size) == [dirs EXCEPT ![Len(dirs)].size = @ + size]

\* push: self._directories.append([directory, size])
push(dirs, directory, size) == Append(dirs, [name |-> directory, size |-> size])

\* '/'.join(directory for directory, _ in self._directories)
RECURSIVE join_names(_)
join_names(dirs) ==
    IF dirs = << >> THEN ""
    ELSE IF Len(dirs) = 1 THEN dirs[1].name
    ELSE join_names(SubSeq(dirs, 1, Len(dirs) - 1)) \o "/" \o dirs[Len(dirs)].name

\* pop on self = [directories, max_size, accumulator]: the new object, whether
\* IndexError was raised, and the (path, size) returned.
pop_silent(self) ==
    IF self.directories = << >>
    THEN [self |-> self, raised |-> FALSE, path |-> "", size |-> 0]
    ELSE LET path == join_names(self.directories)
             size == self.directories[Len(self.directories)].size
             rest == SubSeq(self.directories, 1, Len(self.directories) - 1)
         IN  [self |-> [directories |-> IF rest # << >> THEN update_size(rest, size) ELSE rest,
                        max_size    |-> self.max_size,
                        accumulator |-> self.accumulator
                                          + (IF leq_max(size, self.max_size) THEN size ELSE 0)],
              raised |-> FALSE, path |-> path, size |-> size]
pop(self) ==
    LET path == join_names(self.directories)
    IN  IF self.directories = << >>
        THEN \* list.pop() of an empty list raises before anything is assigned
             [self |-> self, raised |-> TRUE, path |-> path, size |-> 0]
        ELSE LET size == self.directories[Len(self.directories)].size
                 rest == SubSeq(self.directories, 1, Len(self.directories) - 1)
             IN  [self |-> [directories |-> IF rest # << >> THEN update_size(rest, size) ELSE rest,
                            max_size    |-> self.max_size,
                            accumulator |-> self.accumulator
                                              + (IF leq_max(size, self.max_size) THEN size ELSE 0)],
                  raised |-> FALSE, path |-> path, size |-> size]

Self == [directories |-> directories, max_size |-> max_size, accumulator |-> accumulator]

NoCall == [op |-> "none", arg |-> 0, raised |-> FALSE, path |-> "", size |-> 0]

\* defaults of the variables a specification does not use
IdleStack == directories = << >> /\ max_size = Inf /\ accumulator = 0
IdleHist  == ctor_arg = None /\ n_calls = 0 /\ n_push = 0 /\ n_pop = 0 /\ last_call = NoCall
IdleSeven == log = << >> /\ gen = << >> /\ directory_sizes = << >> /\ open_ids = << >> /\ closed = << >>
IdleOne   == calorie_data = << >> /\ num_elves = 0 /\ top_calories = << >>
             /\ maximum_calories = 0 /\ current_calories = 0
IdleSix   == sequence = << >> /\ window_size = 0 /\ buffer = << >> /\ index = 0

\* ------------------------------ SpecStack -------------------------------
StackNames == {"/", "b"}

InitStack ==
    /\ ctor_arg \in {None} \cup (0 .. MaxBound)
    /\ directories = << >>
    /\ max_size = init_max_size(ctor_arg)
    /\ accumulator = 0
    /\ n_calls = 0 /\ n_push = 0 /\ n_pop = 0 /\ last_call = NoCall
    /\ IdleSeven /\ IdleOne /\ IdleSix
    /\ pc = "stack" /\ result = << >>

StackPush ==
    \E d \in StackNames, s \in 0 .. MaxSize :
        /\ n_calls < MaxCalls
        /\ directories' = push(directories, d, s)
        /\ n_calls' = n_calls + 1
        /\ n_push' = n_push + 1
        /\ last_call' = [op |-> "push", arg |-> s, raised |-> FALSE, path |-> "", size |-> 0]
        /\ UNCHANGED << max_size, accumulator, ctor_arg, n_pop >>
        /\ UNCHANGED << sevenVars, oneVars, sixVars, pc, result >>

StackUpdateSize ==
    \E s \in 0 .. MaxSize :
        /\ n_calls < MaxCalls
        /\ n_calls' = n_calls + 1
        /\ IF directories = << >>
           THEN \* self._directories[-1] raises IndexError
                /\ last_call' = [op |-> "update_size", arg |-> s, raised |-> TRUE,
                                 path |-> "", size |-> 0]
                /\ UNCHANGED directories
           ELSE /\ directories' = update_size(directories, s)
                /\ last_call' = [op |-> "update_size", arg |-> s, raised |-> FALSE,
                                 path |-> "", size |-> 0]
        /\ UNCHANGED << max_size, accumulator, ctor_arg, n_push, n_pop >>
        /\ UNCHANGED << sevenVars, oneVars, sixVars, pc, result >>

StackPop ==
    LET r == pop(Self)
    IN  /\ n_calls < MaxCalls
        /\ n_calls' = n_calls + 1
        /\ directories' = r.self.directories
        /\ max_size' = r.self.max_size
        /\ accumulator' = r.self.accumulator
        /\ n_pop' = IF r.raised THEN n_pop ELSE n_pop + 1
        /\ last_call' = [op |-> "pop", arg |-> 0, raised |-> r.raised,
                         path |-> r.path, size |-> r.size]
        /\ UNCHANGED << ctor_arg, n_push >>
        /\ UNCHANGED << sevenVars, oneVars, sixVars, pc, result >>

NextStack == StackPush \/ StackUpdateSize \/ StackPop

SpecStack == InitStack /\ [][NextStack]_vars

\* A call was made in this step
Called(op) == n_calls' = n_calls + 1 /\ last_call'.op = op

(* C1: for any bound that is a non-negative integer (0 included) or absent,
   push and update_size leave the accumulator unchanged and each successful
   pop of a frame of size s adds exactly s when s <= bound and nothing
   otherwise. *)
C1_AccumulatorWithinBound ==
    [][ /\ (Called("push") \/ Called("update_size")) => accumulator' = accumulator
        /\ (Called("pop") /\ ~last_call'.raised) =>
              accumulator' = accumulator
                  + (IF ctor_arg = None \/ last_call'.size <= ctor_arg
                     THEN last_call'.size ELSE 0) ]_vars

(* C2: a pop from a stack of at least two frames adds the popped size to the
   new top frame and changes no other frame; a pop of the only frame leaves
   the stack empty; update_size(delta) adds delta to the top frame only. *)
C2_FrameEffect ==
    [][ /\ (Called("pop") /\ ~last_call'.raised) =>
              /\ Len(directories') = Len(directories) - 1
              /\ \A i \in 1 .. Len(directories') :
                    /\ directories'[i].name = directories[i].name
                    /\ directories'[i].size = directories[i].size
                          + (IF i = Len(directories')
                             THEN directories[Len(directories)].size ELSE 0)
        /\ (Called("update_size") /\ ~last_call'.raised) =>
              /\ Len(directories') = Len(directories)
              /\ \A i \in 1 .. Len(directories') :
                    /\ directories'[i].name = directories[i].name
                    /\ directories'[i].size = directories[i].size
                          + (IF i = Len(directories) THEN last_call'.arg ELSE 0) ]_vars

\* a pop has propagated a positive size into its parent, above another frame
\* that holds a size of its own
C2_Witness ==
    /\ last_call.op = "pop" /\ ~last_call.raised /\ last_call.size > 0
    /\ Len(directories) >= 2
    /\ directories[Len(directories)].size >= last_call.size
    /\ directories[1].size > 0

(* C3: the length is the number of pushes minus the number of successful
   pops; pop and update_size on an empty stack raise and change nothing. *)
C3_LengthAndUnderflow ==
    /\ [](Len(directories) = n_push - n_pop)
    /\ [][ (directories = << >> /\ (Called("pop") \/ Called("update_size"))) =>
              /\ last_call'.raised
              /\ directories' = directories
              /\ accumulator' = accumulator
              /\ n_pop' = n_pop ]_vars

\* a pop was refused on a stack emptied by earlier pops
C3_Witness ==
    /\ last_call.op = "pop" /\ last_call.raised
    /\ n_push >= 2 /\ n_pop = n_push /\ directories = << >>


\* ============================== day_seven ===============================
MaxLines == 4      \* longest transcript drawn from Lines7

total_disk_space    == 70000000
required_disk_space == 30000000
max_tracked_directory_size == 100000

Word(s) == << "word", s >>
Num(n)  == << "num", n >>
CdLine(arg)       == << Word("$"), Word("cd"), Word(arg) >>
LsLine            == << Word("$"), Word("ls") >>
FileLine(n, name) == << Num(n), Word(name) >>
DirLine(name)     == << Word("dir"), Word(name) >>

\* the text of a token, and of a run of tokens separated by single spaces
TokText(tok) == IF tok[1] = "num" THEN ToString(tok[2]) ELSE tok[2]
RECURSIVE JoinSpace(_)
JoinSpace(toks) ==
    IF toks = << >> THEN ""
    ELSE IF Len(toks) = 1 THEN TokText(toks[1])
    ELSE TokText(toks[1]) \o " " \o JoinSpace(Tail(toks))

\* parse_prompt: `_, command, *args = prompt_line.split(maxsplit=2)` needs two
\* fields at least (ValueError otherwise); args[0] is the rest of the line.
parse_prompt(prompt_line) ==
    [ok      |-> Len(prompt_line) >= 2,
     command |-> IF Len(prompt_line) >= 2 THEN TokText(prompt_line[2]) ELSE "",
     arg     |-> IF Len(prompt_line) >= 3
                 THEN JoinSpace(SubSeq(prompt_line, 3, Len(prompt_line))) ELSE ""]

\* key of groupby: s.startswith('$') (the marker is a token of its own here)
is_command(line) == line # << >> /\ line[1] = Word("$")

\* itertools.groupby: maximal runs of consecutive lines with the same key
RECURSIVE group_by(_)
group_by(lines) ==
    IF lines = << >> THEN << >>
    ELSE LET k == is_command(lines[1])
             n == CHOOSE m \in 1 .. Len(lines) :
                      /\ \A i \in 1 .. m : is_command(lines[i]) = k
                      /\ (m = Len(lines) \/ is_command(lines[m + 1]) # k)
         IN  << [key |-> k, lines |-> SubSeq(lines, 1, n)] >>
                 \o group_by(SubSeq(lines, n + 1, Len(lines)))

\* What the generator yields: a record is the tuple head \o lines, head being
\* () or (command, arg); "raise" is the ValueError of parse_prompt, which ends it.
Record(head, lines) == [kind |-> "record", head |-> head, lines |-> lines]
RaiseItem == [kind |-> "raise", head |-> << >>, lines |-> << >>]

RECURSIVE yield_groups(_, _)
yield_groups(groups, with_output) ==
    IF groups = << >> THEN << >>
    ELSE LET g == Head(groups)
         IN  IF g.key
             THEN LET parsed == [i \in 1 .. Len(g.lines) |-> parse_prompt(g.lines[i])]
                      last   == parsed[Len(parsed)]
                  IN  IF \E i \in 1 .. Len(parsed) : ~parsed[i].ok
                      THEN << RaiseItem >>
                      ELSE [i \in 1 .. Len(parsed) - 1 |->
                                Record(<< parsed[i].command, parsed[i].arg >>, << >>)]
                           \o yield_groups(Tail(groups), << last.command, last.arg >>)
             ELSE << Record(with_output, g.lines) >>
                      \o yield_groups(Tail(groups), with_output)

parse_cli_log(lines) == yield_groups(group_by(lines), << >>)

\* parse_ls: line.split(' ', maxsplit=1) must give two fields (ValueError
\* otherwise); the sizes of the lines whose first field is all digits are summed.
RECURSIVE parse_ls_sum(_)
parse_ls_sum(output) ==
    IF output = << >> THEN 0
    ELSE (IF output[1][1][1] = "num" THEN output[1][1][2] ELSE 0)
             + parse_ls_sum(Tail(output))
parse_ls(output) ==
    [ok   |-> \A i \in 1 .. Len(output) : Len(output[i]) >= 2,
     size |-> IF \A i \in 1 .. Len(output) : Len(output[i]) >= 2
              THEN parse_ls_sum(output) ELSE 0]

\* `for command, arg, *output in ...`: the tuple must hold two items at least.
\* A record with no head is made of lines only; its first two are then the
\* command and the argument, as text.
unpack(item) ==
    IF item.head # << >>
    THEN [ok |-> TRUE, command |-> item.head[1], arg |-> item.head[2],
          output |-> item.lines]
    ELSE IF Len(item.lines) >= 2
    THEN [ok |-> TRUE, command |-> JoinSpace(item.lines[1]),
          arg |-> JoinSpace(item.lines[2]),
          output |-> SubSeq(item.lines, 3, Len(item.lines))]
    ELSE [ok |-> FALSE, command |-> "", arg |-> "", output |-> << >>]

\* directory_sizes[path] = size
dict_set(d, path, size) ==
    [p \in DOMAIN d \cup {path} |-> IF p = path THEN size ELSE d[p]]

MinOf(S) == CHOOSE x \in S : \A y \in S : x <= y

\* lines 273-279: (accumulator, size_to_delete), given '/' is a key
summary_no_filter(sizes, acc) ==
    LET free_space   == total_disk_space - sizes["/"]
        size_to_free == required_disk_space - free_space
    IN  IF size_to_free <= 0 THEN << acc, 0 >>
        ELSE LET kept == {sizes[p] : p \in DOMAIN sizes}
             IN  << acc, IF kept = {} THEN 0 ELSE MinOf(kept) >>
summary(sizes, acc) ==
    LET free_space   == total_disk_space - sizes["/"]
        size_to_free == required_disk_space - free_space
    IN  IF size_to_free <= 0 THEN << acc, 0 >>
        ELSE LET kept == {sizes[p] : p \in {q \in DOMAIN sizes : sizes[q] >= size_to_free}}
             IN  << acc, IF kept = {} THEN 0 ELSE MinOf(kept) >>

\* ------------------------------- inputs ---------------------------------
Lines7 == { CdLine("/"), CdLine("a"), CdLine(".."), LsLine,
            FileLine(100, "f"), FileLine(45000000, "h") }

SeqsUpTo(S, n) == UNION { [1 .. k -> S] : k \in 0 .. n }

\* spec section 8, nested scenario
NestedScenario ==
    << CdLine("/"), LsLine, DirLine("b"), FileLine(100, "a.txt"),
       CdLine("b"), LsLine, FileLine(200, "c.txt"), CdLine("..") >>
\* spec section 8, root only
RootScenario == << CdLine("/"), LsLine, FileLine(14848514, "a.txt") >>
\* spec section 8, deletion-size scenario: root 48,381,165
DeletionScenario ==
    << CdLine("/"), LsLine, DirLine("a"), FileLine(23352670, "r"), DirLine("d"),
       CdLine("a"), LsLine, FileLine(94853, "f"), CdLine(".."),
       CdLine("d"), LsLine, FileLine(24933642, "k"), CdLine(".."), CdLine(".") >>
\* a directory entered twice
ReentryScenario ==
    << CdLine("/"), CdLine("a"), LsLine, FileLine(100, "f"), CdLine(".."),
       CdLine("a"), LsLine, FileLine(100, "f") >>
\* `cd .`, then a command outside the vocabulary
UnsupportedScenario ==
    << CdLine("/"), CdLine("."), << Word("$"), Word("pwd") >>, LsLine >>
\* a prompt with no command
BarePromptScenario == << CdLine("/"), << Word("$") >>, LsLine >>

Scenarios == { NestedScenario, RootScenario, DeletionScenario, ReentryScenario,
               UnsupportedScenario, BarePromptScenario }

InitSeven ==
    /\ log = << >>
    /\ ctor_arg = max_tracked_directory_size
    /\ directories = << >>
    /\ max_size = init_max_size(ctor_arg)
    /\ accumulator = 0
    /\ n_calls = 0 /\ n_push = 0 /\ n_pop = 0 /\ last_call = NoCall
    /\ gen = << >> /\ directory_sizes = << >> /\ open_ids = << >> /\ closed = << >>
    /\ IdleOne /\ IdleSix
    /\ pc = "open" /\ result = << >>

idle7 == << ctor_arg, n_calls, last_call, log, oneVars, sixVars, result >>

\* with open(file) as log: the file holds some transcript, and the generator
\* is created over its lines
OpenLog ==
    /\ pc = "open"
    /\ \E lines \in SeqsUpTo(Lines7, MaxLines) \cup Scenarios :
          /\ log' = lines
          /\ gen' = parse_cli_log(lines)
    /\ pc' = "replay"
    /\ UNCHANGED << stackVars, histVars, directory_sizes, open_ids, closed,
                    oneVars, sixVars, result >>

\* the generator raises, or yields a tuple too short to unpack
ReplayValueError ==
    /\ pc = "replay" /\ gen # << >>
    /\ Head(gen).kind = "raise" \/ ~unpack(Head(gen)).ok
    /\ pc' = "error"
    /\ gen' = << >>
    /\ UNCHANGED << stackVars, n_push, n_pop, directory_sizes, open_ids, closed, idle7 >>

\* case "cd", ".": pass
ReplayCdSelf ==
    /\ pc = "replay" /\ gen # << >>
    /\ Head(gen).kind = "record" /\ unpack(Head(gen)).ok
    /\ unpack(Head(gen)).command = "cd" /\ unpack(Head(gen)).arg = "."
    /\ gen' = Tail(gen)
    /\ UNCHANGED << stackVars, n_push, n_pop, directory_sizes, open_ids, closed, pc, idle7 >>

\* the pop and the assignment of lines 261-262 and 271-272
PopAndRecord ==
    LET r == pop(Self)
    IN  IF r.raised
        THEN /\ pc' = "error"
             /\ gen' = << >>
             /\ UNCHANGED << stackVars, n_pop, directory_sizes, open_ids, closed >>
        ELSE /\ directories' = r.self.directories
             /\ max_size' = r.self.max_size
             /\ accumulator' = r.self.accumulator
             /\ n_pop' = n_pop + 1
             /\ directory_sizes' = dict_set(directory_sizes, r.path, r.size)
             /\ closed' = Append(closed, [id |-> open_ids[Len(open_ids)], at |-> pc,
                                          path |-> r.path, size |-> r.size])
             /\ open_ids' = SubSeq(open_ids, 1, Len(open_ids) - 1)
             /\ gen' = IF gen = << >> THEN gen ELSE Tail(gen)
             /\ UNCHANGED pc

\* case "cd", "..": pop and record
ReplayCdParent ==
    /\ pc = "replay" /\ gen # << >>
    /\ Head(gen).kind = "record" /\ unpack(Head(gen)).ok
    /\ unpack(Head(gen)).command = "cd" /\ unpack(Head(gen)).arg = ".."
    /\ PopAndRecord
    /\ UNCHANGED << n_push, idle7 >>

\* case "cd", _: push(arg, 0)
ReplayCdChild ==
    /\ pc = "replay" /\ gen # << >>
    /\ Head(gen).kind = "record" /\ unpack(Head(gen)).ok
    /\ unpack(Head(gen)).command = "cd" /\ unpack(Head(gen)).arg \notin {".", ".."}
    /\ directories' = push(directories, unpack(Head(gen)).arg, 0)
    /\ n_push' = n_push + 1
    /\ open_ids' = Append(open_ids, n_push + 1)
    /\ gen' = Tail(gen)
    /\ UNCHANGED << max_size, accumulator, n_pop, directory_sizes, closed, pc, idle7 >>

\* case "ls", _: update_size(parse_ls(output))
ReplayLs ==
    /\ pc = "replay" /\ gen # << >>
    /\ Head(gen).kind = "record" /\ unpack(Head(gen)).ok
    /\ unpack(Head(gen)).command = "ls"
    /\ IF ~parse_ls(unpack(Head(gen)).output).ok \/ directories = << >>
       THEN \* ValueError of parse_ls, or IndexError of update_size
            /\ pc' = "error"
            /\ gen' = << >>
            /\ UNCHANGED directories
       ELSE /\ directories' = update_size(directories, parse_ls(unpack(Head(gen)).output).size)
            /\ gen' = Tail(gen)
            /\ UNCHANGED pc
    /\ UNCHANGED << max_size, accumulator, n_push, n_pop, directory_sizes, open_ids, closed, idle7 >>

\* case _: raise ValueError
ReplayUnsupported ==
    /\ pc = "replay" /\ gen # << >>
    /\ Head(gen).kind = "record" /\ unpack(Head(gen)).ok
    /\ unpack(Head(gen)).command \notin {"cd", "ls"}
    /\ pc' = "error"
    /\ gen' = << >>
    /\ UNCHANGED << stackVars, n_push, n_pop, directory_sizes, open_ids, closed, idle7 >>

\* the generator is exhausted: the for loop and the with block end
ReplayEnd ==
    /\ pc = "replay" /\ gen = << >>
    /\ pc' = "drain"
    /\ UNCHANGED << stackVars, n_push, n_pop, gen, directory_sizes, open_ids, closed, idle7 >>

\* while directory_stack: pop and record
DrainPop ==
    /\ pc = "drain" /\ Len(directories) # 0
    /\ PopAndRecord
    /\ UNCHANGED << n_push, idle7 >>

\* the while loop ends when len(directory_stack) is 0
DrainExit_early ==
    /\ pc = "drain" /\ Len(directories) <= 1
    /\ pc' = "summary"
    /\ UNCHANGED << stackVars, n_push, n_pop, gen, directory_sizes, open_ids, closed, idle7 >>
DrainExit ==
    /\ pc = "drain" /\ Len(directories) = 0
    /\ pc' = "summary"
    /\ UNCHANGED << stackVars, n_push, n_pop, gen, directory_sizes, open_ids, closed, idle7 >>

\* lines 273-279; directory_sizes['/'] raises KeyError when '/' was never recorded
Summarize ==
    /\ pc = "summary"
    /\ IF "/" \in DOMAIN directory_sizes
       THEN /\ result' = summary(directory_sizes, accumulator)
            /\ pc' = "done"
       ELSE /\ pc' = "error"
            /\ UNCHANGED result
    /\ UNCHANGED << stackVars, histVars, log, gen, directory_sizes, open_ids, closed,
                    oneVars, sixVars >>

NextSeven ==
    \/ OpenLog \/ ReplayValueError \/ ReplayCdSelf \/ ReplayCdParent \/ ReplayCdChild
    \/ ReplayLs \/ ReplayUnsupported \/ ReplayEnd \/ DrainPop \/ DrainExit \/ Summarize

SpecSeven == InitSeven /\ [][NextSeven]_vars
FairSeven == SpecSeven /\ WF_vars(NextSeven)


\* ---------------------- what the claims expect -------------------------
RECURSIVE SumOver(_, _)
SumOver(d, S) ==
    IF S = {} THEN 0
    ELSE LET p == CHOOSE q \in S : TRUE IN d[p] + SumOver(d, S \ {p})

\* the k-th smallest element of a set of numbers
Nth(S, k) == CHOOSE i \in S : Cardinality({j \in S : j < i}) = k - 1

CommandLines(lines) == {i \in 1 .. Len(lines) : is_command(lines[i])}

\* the run of non-command lines that follows line i
OutputAfter(lines, i) ==
    LET stop == CHOOSE m \in i .. Len(lines) :
                    /\ \A j \in i + 1 .. m : ~is_command(lines[j])
                    /\ (m = Len(lines) \/ is_command(lines[m + 1]))
    IN  SubSeq(lines, i + 1, stop)

\* one record per command line, in order, each with the output that follows it
OneRecordPerCommand(lines) ==
    [k \in 1 .. Cardinality(CommandLines(lines)) |->
        LET i == Nth(CommandLines(lines), k)
        IN  Record(<< parse_prompt(lines[i]).command, parse_prompt(lines[i]).arg >>,
                   OutputAfter(lines, i))]

\* a transcript that begins with a command and whose prompts all name a command
WellFormed(lines) ==
    /\ lines # << >> /\ is_command(lines[1])
    /\ \A i \in CommandLines(lines) : parse_prompt(lines[i]).ok

(* C4: in the nested scenario of the spec the root is recorded under `/` and
   the child under `/b`: DirectorySizes is exactly {`/`: 300, `/b`: 200}. *)
C4_NestedScenarioPaths ==
    (pc = "done" /\ log = NestedScenario) =>
        directory_sizes = ("/" :> 300 @@ "/b" :> 200)

(* C5: the first result of day_seven is the sum of the values of the final
   DirectorySizes mapping that do not exceed 100,000. *)
C5_FirstResultIsSumOfSmall ==
    pc = "done" =>
        result[1] = SumOver(directory_sizes,
                            {p \in DOMAIN directory_sizes :
                                directory_sizes[p] <= max_tracked_directory_size})

(* C6: with R the recorded size of `/` and free = 70,000,000 - R, the second
   result is 0 when free >= 30,000,000; otherwise it is the least recorded
   size that is >= 30,000,000 - free, and 0 when no recorded size is. *)
C6_SecondResult ==
    pc = "done" =>
        LET free    == 70000000 - directory_sizes["/"]
            deficit == 30000000 - free
            enough  == {p \in DOMAIN directory_sizes : directory_sizes[p] >= deficit}
        IN  IF free >= 30000000 THEN result[2] = 0
            ELSE IF enough = {} THEN result[2] = 0
            ELSE /\ \E p \in enough : result[2] = directory_sizes[p]
                 /\ \A p \in enough : result[2] <= directory_sizes[p]

\* space had to be freed, and the answer is a directory other than the root
\* while a smaller directory was passed over
C6_Witness ==
    /\ pc = "done"
    /\ directory_sizes["/"] > 40000000
    /\ result[2] > 0 /\ result[2] < directory_sizes["/"]
    /\ \E p \in DOMAIN directory_sizes : directory_sizes[p] < result[2]

(* C9: parse_cli_log yields exactly one record per command line, in order,
   also when the transcript ends with a command line, each with the run of
   non-command lines that follows it (stated for transcripts that begin
   with a command and whose prompts all name a command). *)
C9_OneRecordPerCommand ==
    [][ (pc = "open" /\ pc' = "replay" /\ WellFormed(log')) =>
            gen' = OneRecordPerCommand(log') ]_vars

(* C10: once the replay has ended without error the drain loop terminates;
   the stack is then empty and every frame pushed has been popped exactly
   once, by `cd ..` or by the drain, its (path, size) being recorded in
   DirectorySizes at that pop. *)
C10_EveryFrameClosedOnce ==
    /\ (pc = "drain") ~> (pc = "summary")
    /\ [](pc \in {"summary", "done"} =>
            /\ directories = << >> /\ open_ids = << >>
            /\ Len(closed) = n_push
            /\ \A i \in 1 .. n_push :
                  Cardinality({k \in DOMAIN closed : closed[k].id = i}) = 1)
    /\ [][ Len(closed') = Len(closed) + 1 =>
              LET c == closed'[Len(closed')]
              IN  /\ c.id = open_ids[Len(open_ids)]
                  /\ c.path \in DOMAIN directory_sizes'
                  /\ directory_sizes'[c.path] = c.size ]_vars

\* the drain is over; one frame was closed by `cd ..`, two by the drain
C10_Witness ==
    /\ pc = "summary"
    /\ n_push >= 3
    /\ \E k \in DOMAIN closed : closed[k].at = "replay"
    /\ Cardinality({k \in DOMAIN closed : closed[k].at = "drain"}) >= 2


\* =============================== day_one ================================
MaxCalorieLines == 4   \* longest calorie file
MaxCalories     == 2   \* largest number on a line
MaxElves        == 3   \* largest num_elves

BlankLine == << >>
CalorieLines == {BlankLine} \cup { << Num(n) >> : n \in 0 .. MaxCalories }

\* int(line): the value of a line that holds one number, ValueError otherwise
int_of(line) ==
    [ok    |-> Len(line) = 1 /\ line[1][1] = "num",
     value |-> IF Len(line) = 1 /\ line[1][1] = "num" THEN line[1][2] ELSE 0]

\* heapq._siftup, first loop: the smaller child moves up until a leaf is hit
\* (positions are 1-based here: the children of pos are 2*pos and 2*pos + 1)
RECURSIVE bubble_smaller_child(_, _)
bubble_smaller_child(heap, pos) ==
    LET childpos == 2 * pos
        rightpos == childpos + 1
        c == IF rightpos <= Len(heap) /\ ~(heap[childpos] < heap[rightpos])
             THEN rightpos ELSE childpos
    IN  IF childpos > Len(heap) THEN [heap |-> heap, pos |-> pos]
        ELSE bubble_smaller_child([heap EXCEPT ![pos] = heap[c]], c)

\* heapq._siftdown: newitem moves up past every larger parent
RECURSIVE siftdown(_, _, _, _)
siftdown(heap, startpos, pos, newitem) ==
    IF pos > startpos /\ newitem < heap[pos \div 2]
    THEN siftdown([heap EXCEPT ![pos] = heap[pos \div 2]], startpos, pos \div 2, newitem)
    ELSE [heap EXCEPT ![pos] = newitem]

\* heapq.heapreplace(heap, item): heap[0] = item, then _siftup(heap, 0)
heapreplace(heap, item) ==
    LET b == bubble_smaller_child([heap EXCEPT ![1] = item], 1)
    IN  siftdown(b.heap, 1, b.pos, item)

InitOne ==
    /\ calorie_data \in SeqsUpTo(CalorieLines, MaxCalorieLines)
    /\ num_elves \in 1 .. MaxElves
    /\ top_calories = [i \in 1 .. num_elves |-> 0]
    /\ maximum_calories = 0
    /\ current_calories = 0
    /\ index = 0
    /\ sequence = << >> /\ window_size = 0 /\ buffer = << >>
    /\ IdleStack /\ IdleHist /\ IdleSeven
    /\ pc = "read" /\ result = << >>

\* one iteration of `for line in calorie_data`
ReadLine ==
    /\ pc = "read" /\ index < Len(calorie_data)
    /\ LET line == calorie_data[index + 1]
           cur  == IF int_of(line).ok THEN current_calories + int_of(line).value ELSE 0
       IN  /\ current_calories' = cur
           /\ maximum_calories' = Max(maximum_calories, cur)
           /\ top_calories' = IF cur > top_calories[1]
                              THEN heapreplace(top_calories, cur)
                              ELSE top_calories
    /\ index' = index + 1
    /\ UNCHANGED << stackVars, histVars, sevenVars, calorie_data, num_elves,
                    sequence, window_size, buffer, pc, result >>

\* return maximum_calories, sum(top_calories)
ReturnOne ==
    /\ pc = "read" /\ index = Len(calorie_data)
    /\ result' = << maximum_calories, SumSeq(top_calories) >>
    /\ pc' = "done"
    /\ UNCHANGED << stackVars, histVars, sevenVars, oneVars, sixVars >>

NextOne == ReadLine \/ ReturnOne

SpecOne == InitOne /\ [][NextOne]_vars

\* ---- what the claim expects: the sums of the groups cut at the blank lines
RECURSIVE GroupSums(_, _)
GroupSums(lines, running) ==
    IF lines = << >> THEN << running >>
    ELSE IF int_of(lines[1]).ok
    THEN GroupSums(Tail(lines), running + int_of(lines[1]).value)
    ELSE << running >> \o GroupSums(Tail(lines), 0)

MaxOfSeq(q) == CHOOSE x \in {q[i] : i \in DOMAIN q} : \A i \in DOMAIN q : q[i] <= x

\* the sum of the n largest entries of q, absent entries counting 0
RECURSIVE SumLargest(_, _)
SumLargest(q, n) ==
    IF n = 0 \/ q = << >> THEN 0
    ELSE LET i == CHOOSE j \in DOMAIN q : \A k \in DOMAIN q : q[k] <= q[j]
         IN  q[i] + SumLargest(SubSeq(q, 1, i - 1) \o SubSeq(q, i + 1, Len(q)), n - 1)

(* C7: day_one returns (the largest group sum, the sum of the num_elves
   largest group sums), each group counting once with its complete sum and
   missing groups counting 0. *)
C7_TopGroupSums ==
    pc = "done" =>
        result = << MaxOfSeq(GroupSums(calorie_data, 0)),
                    SumLargest(GroupSums(calorie_data, 0), num_elves) >>

\* ========================= first_unique_window ==========================
MaxSequence == 4   \* longest sequence
MaxWindow   == 3   \* largest window_size

Chars == {"a", "b", "c"}

\* deque(maxlen = n).append: the leftmost element falls out of a full deque
deque_append(buf, maxlen, x) ==
    IF Len(buf) = maxlen THEN Append(Tail(buf), x) ELSE Append(buf, x)

InitSix ==
    /\ sequence \in SeqsUpTo(Chars, MaxSequence)
    /\ window_size \in 1 .. MaxWindow
    /\ buffer = << >>
    /\ index = 0
    /\ IdleStack /\ IdleHist /\ IdleSeven /\ IdleOne
    /\ pc = "scan" /\ result = << >>

\* one iteration of `for index, char in enumerate(sequence)`
ScanElement ==
    /\ pc = "scan" /\ index < Len(sequence)
    /\ IF Cardinality({buffer[i] : i \in DOMAIN buffer}) = window_size
       THEN /\ result' = index
            /\ pc' = "done"
            /\ UNCHANGED << buffer, index >>
       ELSE /\ buffer' = deque_append(buffer, window_size, sequence[index + 1])
            /\ index' = index + 1
            /\ UNCHANGED << pc, result >>
    /\ UNCHANGED << stackVars, histVars, sevenVars, oneVars, sequence, window_size >>

\* the sequence is exhausted: return -1
ScanExhausted ==
    /\ pc = "scan" /\ index = Len(sequence)
    /\ result' = -1
    /\ pc' = "done"
    /\ UNCHANGED << stackVars, histVars, sevenVars, oneVars, sixVars >>

NextSix == ScanElement \/ ScanExhausted

SpecSix == InitSix /\ [][NextSix]_vars

\* the positions k at which a window of w pairwise-distinct elements is complete
CompleteWindows(q, w) ==
    {k \in w .. Len(q) : \A i, j \in k - w + 1 .. k : i # j => q[i] # q[j]}

(* C8: first_unique_window returns -1 only if no window of window_size
   consecutive pairwise-distinct elements exists; otherwise it returns the
   number of elements consumed when the first such window is complete, also
   when that window ends at the last element. *)
C8_FirstWindowPosition ==
    pc = "done" =>
        result = IF CompleteWindows(sequence, window_size) = {} THEN -1
                 ELSE MinOf(CompleteWindows(sequence, window_size))

=============================================================================
